---------------------------- MODULE Spec2Model ----------------------------
(***************************************************************************)
(* executeDiff of the CLI provider                                         *)
(* (src/services/git/providers/cli/operations/commits/diff.ts): the        *)
(* argument vectors it builds, the executor invocations it issues, and the *)
(* result or error it leaves with.                                         *)
(*                                                                         *)
(* Text (stdout, error messages) is a sequence of tokens; the token "\n"   *)
(* is the newline, every other token is a run of characters without one.   *)
(* An optional option is <<>> (undefined) or <<v>>.                        *)
(***************************************************************************)
EXTENDS Integers, Sequences, FiniteSets, TLC

VARIABLES calls, execLog, tree, seenAt, cache, getters, made, handed

vars == <<calls, execLog, tree, seenAt, cache, getters, made, handed>>

\* The working tree and the record of what each invocation saw of it.
treeVars == <<tree, seenAt>>

\* The provider factory.
factoryVars == <<cache, getters, made, handed>>

diffVars == <<calls, execLog>>

(* ------------------------------ bounds --------------------------------- *)

MaxUntracked == 2

MaxUnified == 1

MaxTree == 2

MaxInstances == 3

NumCalls == 2

(* ------------------------------ text ----------------------------------- *)

NL == "\n"

RECURSIVE Flatten(_)
Flatten(ss) == IF ss = <<>> THEN <<>> ELSE Head(ss) \o Flatten(Tail(ss))

\* The characters of a line as one string.
RECURSIVE Join(_)
Join(line) == IF line = <<>> THEN "" ELSE Head(line) \o Join(Tail(line))

RECURSIVE SumSeq(_)
SumSeq(s) == IF s = <<>> THEN 0 ELSE Head(s) + SumSeq(Tail(s))

Contains(text, tok) == \E i \in 1..Len(text) : text[i] = tok

\* String.prototype.split('\n'): the pieces between newlines, the last one
\* (after the final newline, possibly empty) included.
RECURSIVE SplitAcc(_, _, _)
SplitAcc(text, cur, acc) ==
  IF text = <<>> THEN Append(acc, cur)
  ELSE IF Head(text) = NL THEN SplitAcc(Tail(text), <<>>, Append(acc, cur))
  ELSE SplitAcc(Tail(text), Append(cur, Head(text)), acc)

SplitLines(text) == SplitAcc(text, <<>>, <<>>)

Whitespace == {" ", "\t"}

\* line.trim() is truthy: some character of the line is not whitespace.
TrimTruthy(line) == \E i \in 1..Len(line) : line[i] \notin Whitespace

\* text.split('\n').filter((l) => l.trim())
NonBlankLines(text) == SelectSeq(SplitLines(text), TrimTruthy)

(* ----------------------------- options --------------------------------- *)

Undefined == <<>>

\* JavaScript truthiness of an optional string: neither undefined nor ''.
Truthy(opt) == opt # Undefined /\ opt[1] # ""

MkOptions(staged, nameOnly, unified, stat, source, target, path, incl) ==
  [staged |-> staged, nameOnly |-> nameOnly, unified |-> unified,
   stat |-> stat, source |-> source, target |-> target, path |-> path,
   includeUntracked |-> incl]

\* diff.ts:37-64
BuildArgsPathFirst(o) ==
  (IF o.staged THEN <<"--cached">> ELSE <<>>)
  \o (IF o.nameOnly THEN <<"--name-only">> ELSE <<>>)
  \o (IF o.unified # Undefined
        THEN <<"--unified=" \o ToString(o.unified[1])>> ELSE <<>>)
  \o (IF Truthy(o.path) THEN <<o.path[1], "--">> ELSE <<>>)
  \o (IF Truthy(o.source) THEN <<o.source[1]>> ELSE <<>>)
  \o (IF Truthy(o.target) THEN <<o.target[1]>> ELSE <<>>)

BuildArgs(o) ==
  (IF o.staged THEN <<"--cached">> ELSE <<>>)
  \o (IF o.nameOnly THEN <<"--name-only">> ELSE <<>>)
  \o (IF o.unified # Undefined
        THEN <<"--unified=" \o ToString(o.unified[1])>> ELSE <<>>)
  \o (IF Truthy(o.source) THEN <<o.source[1]>> ELSE <<>>)
  \o (IF Truthy(o.target) THEN <<o.target[1]>> ELSE <<>>)
  \o (IF Truthy(o.path) THEN <<"--", o.path[1]>> ELSE <<>>)

NotNameOnly(a) == a # "--name-only"

\* diff.ts:70 and 162-165: [...args.filter((a) => a !== '--name-only'), '--stat']
StatArgs(args) == Append(SelectSeq(args, NotNameOnly), "--stat")

\* diff.ts:101-104
LsFilesArgs == <<"--others", "--exclude-standard">>

\* diff.ts:124-127
NoIndexArgs(file) == <<"--no-index", "/dev/null", file>>

\* utils buildGitCommand({command, args}): the subcommand, then its arguments.
buildGitCommand(command, args) == <<command>> \o args

(* --------------------------- executor values --------------------------- *)

\* execGit resolves with {stdout, stderr}. hasStdout = FALSE is a resolved
\* value whose stdout is missing (a violation of the executor's contract).
Resolved(stdout) ==
  [kind |-> "resolved", hasStdout |-> TRUE, stdout |-> stdout,
   isError |-> FALSE, exitCode |-> 0, message |-> <<>>]

ResolvedNoStdout ==
  [kind |-> "resolved", hasStdout |-> FALSE, stdout |-> <<>>,
   isError |-> FALSE, exitCode |-> 0, message |-> <<>>]

\* execGit rejects; isError: the rejection value is an Error instance.
Rejected(isError, exitCode, message) ==
  [kind |-> "rejected", hasStdout |-> FALSE, stdout |-> <<>>,
   isError |-> isError, exitCode |-> exitCode, message |-> message]

Pending ==
  [kind |-> "pending", hasStdout |-> FALSE, stdout |-> <<>>,
   isError |-> FALSE, exitCode |-> 0, message |-> <<>>]

\* diff.ts:136: "Exit Code: N\nStderr: ...\nStdout: ..."
ExitMessage(code, stderr, stdout) ==
  <<"Exit Code: " \o ToString(code), NL, "Stderr: ">> \o stderr
  \o <<NL, "Stdout: ">> \o stdout

\* A TypeError raised inside executeDiff (reading a property of undefined).
TypeErrorValue == Rejected(TRUE, 0, <<"TypeError">>)


(* ------------------------------ helpers -------------------------------- *)

\* String concatenation of a resolved value's stdout: a missing stdout
\* concatenates as the text "undefined".
StdoutStr(r) == IF r.hasStdout THEN r.stdout ELSE <<"undefined">>

\* diff.ts:138: err.message.match(/\nStdout: ([\s\S]*)$/): the leftmost
\* "\nStdout: " and everything after it up to the end of the message.
StdoutMatch(message) ==
  LET hits == {i \in 1..(Len(message) - 1) :
                 message[i] = NL /\ message[i + 1] = "Stdout: "}
  IN IF hits = {} THEN <<>>
     ELSE LET i == CHOOSE k \in hits : \A j \in hits : k <= j
          IN <<SubSeq(message, i + 2, Len(message))>>

\* diff.ts:134-143: what the catch block of a per-file comparison appends to
\* untrackedDiff; it rethrows nothing.
CaughtStdout(err) ==
  IF err.isError
    THEN LET m == StdoutMatch(err.message)
         IN IF m # <<>> /\ m[1] # <<>> THEN m[1] ELSE <<>>
    ELSE <<>>

\* utils mapGitError(error, operation), by the classification precedence of
\* the error mapper: tool missing, not a repository, conflict, reference not
\* found, and operation failed for everything else.
mapGitError(error, operation) ==
  [operation |-> operation,
   errKind |->
     IF error.isError /\ Contains(error.message, "spawn git ENOENT")
       THEN "ToolUnavailable"
     ELSE IF error.isError
             /\ Contains(error.message, "fatal: not a git repository")
       THEN "NotARepository"
     ELSE IF error.isError /\ Contains(error.message, "already exists")
       THEN "Conflict"
     ELSE IF error.isError /\ Contains(error.message, "unknown revision")
       THEN "ReferenceNotFound"
     ELSE "OperationFailed"]

ErrorKinds ==
  {"ToolUnavailable", "NotARepository", "ReferenceNotFound", "Conflict",
   "ProviderUnavailable", "ValidationError", "OperationFailed"}

\* The per-file lines of a --stat block: path, additions, deletions. A binary
\* file renders as Bin and contributes 0/0.
StatFileLines ==
  {"a.txt | 3 ++-", "b.txt | 2 ++", "img.png | Bin 0 -> 10 bytes"}

StatEntry(tok) ==
  CASE tok = "a.txt | 3 ++-" -> [path |-> "a.txt", additions |-> 2, deletions |-> 1]
    [] tok = "b.txt | 2 ++" -> [path |-> "b.txt", additions |-> 2, deletions |-> 0]
    [] OTHER -> [path |-> "img.png", additions |-> 0, deletions |-> 0]

IsStatFileLine(line) == Len(line) = 1 /\ line[1] \in StatFileLines

StatEntryOfLine(line) == StatEntry(line[1])

Additions(e) == e.additions

Deletions(e) == e.deletions

\* utils parseGitDiffStat(stdout): the file lines of the block, in order, and
\* the totals; the summary line and blank lines are skipped.
parseGitDiffStat(stdout) ==
  LET lines == SelectSeq(SplitLines(stdout), IsStatFileLine)
      files == [i \in 1..Len(lines) |-> StatEntryOfLine(lines[i])]
  IN [files |-> files,
      totalAdditions |-> SumSeq([i \in 1..Len(files) |-> Additions(files[i])]),
      totalDeletions |-> SumSeq([i \in 1..Len(files) |-> Deletions(files[i])])]

(* --------------------------- one call's state -------------------------- *)

NoOutcome == [kind |-> "none"]

Returned(value) == [kind |-> "returned", value |-> value]

Thrown(error) == [kind |-> "thrown", error |-> error]

NoOptions ==
  MkOptions(FALSE, FALSE, Undefined, FALSE, Undefined, Undefined, Undefined,
            FALSE)

Idle ==
  [pc |-> "idle", awaiting |-> FALSE, options |-> NoOptions, cwd |-> "",
   args |-> <<>>, diffStdout |-> <<>>, untrackedFiles |-> <<>>, next |-> 1,
   untrackedDiff |-> <<>>, untrackedFileCount |-> 0, outcome |-> NoOutcome]

\* diff.ts:36-67: the argument vector is built, then the first invocation is
\* the stat one (stat mode) or the primary diff.
Entered(o, cwd) ==
  [Idle EXCEPT !.pc = IF o.stat THEN "statOnly" ELSE "primary",
               !.options = o, !.cwd = cwd, !.args = BuildArgs(o)]

ThrowUnmapped(s, error) ==
  [s EXCEPT !.pc = "done", !.awaiting = FALSE, !.outcome = Thrown(error)]

ThrowAndRetry(s, error) == [s EXCEPT !.awaiting = FALSE]

\* diff.ts:183-185
Throw(s, error) ==
  [s EXCEPT !.pc = "done", !.awaiting = FALSE,
            !.outcome = Thrown(mapGitError(error, "diff"))]

Return(s, value) ==
  [s EXCEPT !.pc = "done", !.awaiting = FALSE, !.outcome = Returned(value)]

\* diff.ts:77-85
AfterStatOnly(s, r) ==
  IF r.kind = "rejected" THEN Throw(s, r)
  ELSE IF ~r.hasStdout THEN Throw(s, TypeErrorValue)
  ELSE LET stats == parseGitDiffStat(r.stdout)
       IN Return(s, [diff |-> r.stdout,
                     filesChanged |-> Len(stats.files),
                     insertions |-> stats.totalAdditions,
                     deletions |-> stats.totalDeletions,
                     binary |-> Contains(r.stdout, "Binary files")])

\* diff.ts:148-159: the combined text; name-only mode returns here, full mode
\* goes on to the stat pass.
Combine(s) ==
  LET combinedDiff == s.diffStdout \o s.untrackedDiff
  IN IF s.options.nameOnly
       THEN Return(s, [diff |-> combinedDiff,
                       filesChanged |-> Len(NonBlankLines(combinedDiff)),
                       binary |-> FALSE])
       ELSE [s EXCEPT !.pc = "stat", !.awaiting = FALSE]

AfterPrimaryAlwaysLists(s, r) ==
  IF r.kind = "rejected" THEN Throw(s, r)
  ELSE [s EXCEPT !.diffStdout = StdoutStr(r), !.pc = "ls",
                 !.awaiting = FALSE]

\* diff.ts:94-99
AfterPrimary(s, r) ==
  IF r.kind = "rejected" THEN Throw(s, r)
  ELSE LET t == [s EXCEPT !.diffStdout = StdoutStr(r)]
       IN IF s.options.includeUntracked
            THEN [t EXCEPT !.pc = "ls", !.awaiting = FALSE]
            ELSE Combine(t)

NameLine(file) == <<file, NL>>

\* diff.ts:111-120: the untracked files; in name-only mode the loop appends
\* one line per file and awaits nothing.
AfterLs(s, r) ==
  IF r.kind = "rejected" THEN Throw(s, r)
  ELSE IF ~r.hasStdout THEN Throw(s, TypeErrorValue)
  ELSE LET lines == NonBlankLines(r.stdout)
           files == [i \in 1..Len(lines) |-> Join(lines[i])]
           t == [s EXCEPT !.untrackedFiles = files,
                          !.untrackedFileCount = Len(files), !.next = 1]
       IN IF s.options.nameOnly
            THEN Combine([t EXCEPT !.untrackedDiff =
                                     Flatten([i \in 1..Len(files) |->
                                                NameLine(files[i])]),
                                   !.next = Len(files) + 1])
          ELSE IF files = <<>> THEN Combine(t)
          ELSE [t EXCEPT !.pc = "file", !.awaiting = FALSE]

NextFileBreak(s) ==
  Combine([s EXCEPT !.next = Len(s.untrackedFiles) + 1, !.awaiting = FALSE])

\* diff.ts:117, 145: the loop goes to the next file, or leaves.
NextFile(s) ==
  LET t == [s EXCEPT !.next = s.next + 1, !.awaiting = FALSE]
  IN IF t.next > Len(t.untrackedFiles) THEN Combine(t) ELSE t

AfterFilePrepend(s, r) ==
  IF r.kind = "rejected"
    THEN NextFile([s EXCEPT !.untrackedDiff = CaughtStdout(r) \o @])
    ELSE NextFile([s EXCEPT !.untrackedDiff = StdoutStr(r) \o @])

\* diff.ts:133 (resolved) and 134-143 (rejected)
AfterFile(s, r) ==
  IF r.kind = "rejected"
    THEN NextFile([s EXCEPT !.untrackedDiff = @ \o CaughtStdout(r)])
    ELSE NextFile([s EXCEPT !.untrackedDiff = @ \o StdoutStr(r)])

AfterStatUntrackedLines(s, r) ==
  IF r.kind = "rejected" THEN Throw(s, r)
  ELSE IF ~r.hasStdout THEN Throw(s, TypeErrorValue)
  ELSE LET stats == parseGitDiffStat(r.stdout)
           combinedDiff == s.diffStdout \o s.untrackedDiff
       IN Return(s, [diff |-> combinedDiff,
                     filesChanged |-> Len(stats.files) + s.untrackedFileCount,
                     insertions |-> stats.totalAdditions + s.untrackedFileCount,
                     deletions |-> stats.totalDeletions,
                     binary |-> Contains(combinedDiff, "Binary files")])

\* diff.ts:173-182
AfterStat(s, r) ==
  IF r.kind = "rejected" THEN Throw(s, r)
  ELSE IF ~r.hasStdout THEN Throw(s, TypeErrorValue)
  ELSE LET stats == parseGitDiffStat(r.stdout)
           combinedDiff == s.diffStdout \o s.untrackedDiff
       IN Return(s, [diff |-> combinedDiff,
                     filesChanged |-> Len(stats.files) + s.untrackedFileCount,
                     insertions |-> stats.totalAdditions,
                     deletions |-> stats.totalDeletions,
                     binary |-> Contains(combinedDiff, "Binary files")])

\* The argument vector handed to execGit at the call's position.
\* diff.ts:68-71, 89, 101-104, 124-127, 162-166
ArgvAt(s) ==
  CASE s.pc = "statOnly" -> buildGitCommand("diff", StatArgs(s.args))
    [] s.pc = "primary" -> buildGitCommand("diff", s.args)
    [] s.pc = "ls" -> buildGitCommand("ls-files", LsFilesArgs)
    [] s.pc = "file" ->
         buildGitCommand("diff", NoIndexArgs(s.untrackedFiles[s.next]))
    [] OTHER -> buildGitCommand("diff", StatArgs(s.args))


(* ------------------------ what the executor answers -------------------- *)

NotARepoFailure ==
  Rejected(TRUE, 128,
           ExitMessage(128, <<"fatal: not a git repository">>, <<>>))

SpawnFailure == Rejected(TRUE, 0, <<"spawn git ENOENT">>)

OtherFailure == Rejected(TRUE, 1, ExitMessage(1, <<"error: failed">>, <<>>))

Failures == {NotARepoFailure, SpawnFailure, OtherFailure}

DiffOuts ==
  {<<>>,
   <<"diff --git a/a.txt b/a.txt", NL, "+x", NL>>,
   <<"Binary files", " a/img.png and b/img.png differ", NL>>}

\* --name-only output; the last one does not end with a newline.
NameOuts == {<<>>, <<"a.txt", NL>>, <<"a.txt", NL, "b.txt">>}

FileName(i) == "new" \o ToString(i) \o ".txt"

\* Untracked files in the order the listing enumerates them.
FileSeqs ==
  UNION {{[i \in 1..n |-> FileName(i)], [i \in 1..n |-> FileName(n + 1 - i)]} :
           n \in 0..MaxUntracked}

LsText(files) == Flatten([i \in 1..Len(files) |-> NameLine(files[i])])

\* ls-files output: one name per line, and one with a blank line inside and
\* no newline at its end.
LsOuts ==
  {LsText(fs) : fs \in FileSeqs}
  \cup {<<FileName(1), NL, " ", NL, FileName(2)>>}

\* What 'diff --no-index /dev/null file' prints for an untracked file.
NoIndexOut(file) ==
  <<"diff --git a/" \o file \o " b/" \o file, NL, "new file mode 100644", NL,
    "+hello", NL>>

FileKinds == {"resolved", "differ", "fatal", "nosection", "nonerror", "partial"}

\* The outcomes of a per-file comparison: exit 0; exit 1 "files differ" with
\* the comparison in the Stdout section; exit 128 with an empty Stdout
\* section; a failure whose message has no Stdout section; a rejection value
\* that is no Error; exit 2 with some text in the Stdout section.
FileResponse(kind, file) ==
  CASE kind = "resolved" -> Resolved(NoIndexOut(file))
    [] kind = "differ" ->
         Rejected(TRUE, 1, ExitMessage(1, <<>>, NoIndexOut(file)))
    [] kind = "fatal" ->
         Rejected(TRUE, 128,
                  ExitMessage(128, <<"fatal: cannot read " \o file>>, <<>>))
    [] kind = "nosection" -> SpawnFailure
    [] kind = "nonerror" -> Rejected(FALSE, 1, <<>>)
    [] OTHER ->
         Rejected(TRUE, 2, ExitMessage(2, <<"error: " \o file>>,
                                       <<"partial " \o file, NL>>))

StatOuts ==
  {<<>>,
   <<"a.txt | 3 ++-", NL, " 1 file changed, 2 insertions(+), 1 deletion(-)",
     NL>>,
   <<"a.txt | 3 ++-", NL, "img.png | Bin 0 -> 10 bytes", NL, "b.txt | 2 ++",
     NL, " 3 files changed, 4 insertions(+), 1 deletion(-)", NL>>}

BOOL == {TRUE, FALSE}

\* The executor's answers and the callers' options a specification ranges
\* over.
Profile(callers, options, dirs, diffs, names, ls, fileKinds, stat) ==
  [callers |-> callers, options |-> options, dirs |-> dirs, diffs |-> diffs,
   names |-> names, ls |-> ls, fileKinds |-> fileKinds, stat |-> stat]

(* ------------------------------ actions -------------------------------- *)

Calls == 1..NumCalls

\* The locals of executeDiff (args, diffResult, untrackedDiff,
\* untrackedFileCount, ...) belong to one call: diff.ts:37, 90, 97-98.
StoreShared(cs, c, s) ==
  [d \in DOMAIN cs |->
     IF d = c THEN s ELSE [cs[d] EXCEPT !.untrackedDiff = s.untrackedDiff]]

Store(cs, c, s) == [cs EXCEPT ![c] = s]

Invoking == {"statOnly", "primary", "ls", "file", "stat"}

Keys == {"cli", "isomorphic"}

NoGetter == [pc |-> "idle", key |-> "", mine |-> 0, got |-> 0]

Init ==
  /\ calls = [c \in Calls |-> Idle]
  /\ execLog = [c \in Calls |-> <<>>]
  /\ tree = 0
  /\ seenAt = [c \in Calls |-> <<>>]
  /\ cache = [k \in Keys |-> 0]
  /\ getters = [g \in Calls |-> NoGetter]
  /\ made = 0
  /\ handed = {}

\* A caller calls executeDiff(options, context, execGit): diff.ts:27-67.
Invoke(c, P) ==
  /\ calls[c].pc = "idle"
  /\ \E o \in P.options, d \in P.dirs :
       calls' = Store(calls, c, Entered(o, d))
  /\ UNCHANGED <<execLog, treeVars, factoryVars>>

\* The call hands its next argument vector to the executor and awaits it:
\* diff.ts:72, 90, 105, 128, 167.
ExecGit(c) ==
  LET s == calls[c]
  IN /\ s.pc \in Invoking
     /\ ~s.awaiting
     /\ calls' = Store(calls, c, [s EXCEPT !.awaiting = TRUE])
     /\ execLog' =
          [execLog EXCEPT ![c] =
             Append(@, [step |-> s.pc,
                        file |-> IF s.pc = "file" THEN s.next ELSE 0,
                        argv |-> ArgvAt(s), cwd |-> s.cwd, resp |-> Pending])]
     /\ UNCHANGED <<treeVars, factoryVars>>

Answered(c, r) == [execLog EXCEPT ![c][Len(execLog[c])].resp = r]

\* The invocation that settles has seen the working tree as it is now.
Saw(c) ==
  /\ seenAt' = [seenAt EXCEPT ![c] = Append(@, tree)]
  /\ UNCHANGED <<tree, factoryVars>>

Awaiting(c, step) == calls[c].pc = step /\ calls[c].awaiting

Answers(outs) == {Resolved(t) : t \in outs} \cup Failures

\* The stat invocation of stat mode settles: diff.ts:72-86.
SettleStatOnly(c, P) ==
  /\ Awaiting(c, "statOnly")
  /\ \E r \in P.stat :
       /\ calls' = Store(calls, c, AfterStatOnly(calls[c], r))
       /\ execLog' = Answered(c, r)
       /\ Saw(c)

\* The primary diff settles: diff.ts:90-99, 148-159.
SettlePrimary(c, P) ==
  /\ Awaiting(c, "primary")
  /\ \E r \in (IF calls[c].options.nameOnly THEN P.names ELSE P.diffs) :
       /\ calls' = Store(calls, c, AfterPrimary(calls[c], r))
       /\ execLog' = Answered(c, r)
       /\ Saw(c)

\* The listing of untracked files settles: diff.ts:105-120, 148-159.
SettleLs(c, P) ==
  /\ Awaiting(c, "ls")
  /\ \E r \in P.ls :
       /\ calls' = Store(calls, c, AfterLs(calls[c], r))
       /\ execLog' = Answered(c, r)
       /\ Saw(c)

\* A per-file comparison settles: diff.ts:128-145, 148-159.
SettleFile(c, P) ==
  /\ Awaiting(c, "file")
  /\ \E k \in P.fileKinds :
       LET r == FileResponse(k, calls[c].untrackedFiles[calls[c].next])
       IN /\ calls' = Store(calls, c, AfterFile(calls[c], r))
          /\ execLog' = Answered(c, r)
          /\ Saw(c)

\* The stat pass of full mode settles: diff.ts:167-185.
SettleStat(c, P) ==
  /\ Awaiting(c, "stat")
  /\ \E r \in P.stat :
       /\ calls' = Store(calls, c, AfterStat(calls[c], r))
       /\ execLog' = Answered(c, r)
       /\ Saw(c)

Step(c, P) ==
  \/ Invoke(c, P)
  \/ ExecGit(c)
  \/ SettleStatOnly(c, P)
  \/ SettlePrimary(c, P)
  \/ SettleLs(c, P)
  \/ SettleFile(c, P)
  \/ SettleStat(c, P)

(* --------------------------- specifications ---------------------------- *)

\* One call, every outcome of every invocation.
OneCall ==
  Profile({1},
          {MkOptions(FALSE, n, Undefined, s, Undefined, Undefined,
                     <<"src/a.ts">>, u) : n \in BOOL, s \in BOOL, u \in BOOL},
          {"/repo"},
          Answers(DiffOuts), Answers(NameOuts),
          Answers(LsOuts) \cup {ResolvedNoStdout},
          FileKinds,
          Answers(StatOuts) \cup {ResolvedNoStdout})

Next == \E c \in OneCall.callers : Step(c, OneCall)

Spec == Init /\ [][Next]_vars

Refs == {Undefined, <<"">>, <<"HEAD~1">>}

Targets == {Undefined, <<"">>, <<"main">>}

Paths == {Undefined, <<"">>, <<"src/a.ts">>}

Unifieds == {Undefined} \cup {<<n>> : n \in 0..MaxUnified}

\* One call, every combination of options, one answer per invocation.
AllOptions ==
  Profile({1},
          {MkOptions(st, n, un, s, so, ta, pa, u) :
             st \in BOOL, n \in BOOL, un \in Unifieds, s \in BOOL,
             so \in Refs, ta \in Targets, pa \in Paths, u \in BOOL},
          {"/repo"},
          {Resolved(<<"diff --git a/a.txt b/a.txt", NL, "+x", NL>>)},
          {Resolved(<<"a.txt", NL>>)},
          {Resolved(LsText(<<FileName(1)>>))},
          {"differ"},
          {Resolved(<<"a.txt | 3 ++-", NL>>)})

NextArgs == \E c \in AllOptions.callers : Step(c, AllOptions)

SpecArgs == Init /\ [][NextArgs]_vars

\* Concurrent calls, in the same or in different working directories.
Concurrent ==
  Profile(Calls,
          {MkOptions(FALSE, n, Undefined, FALSE, Undefined, Undefined,
                     Undefined, TRUE) : n \in BOOL}
          \cup {MkOptions(FALSE, FALSE, Undefined, TRUE, Undefined,
                          Undefined, Undefined, TRUE)},
          {"/repo", "/other"},
          {Resolved(<<"diff --git a/a.txt b/a.txt", NL, "+x", NL>>),
           NotARepoFailure},
          {Resolved(<<"a.txt", NL>>)},
          {Resolved(LsText(<<FileName(1)>>)),
           Resolved(LsText(<<FileName(2)>>))},
          {"differ", "fatal"},
          {Resolved(<<"a.txt | 3 ++-", NL>>), OtherFailure})

NextConc == \E c \in Concurrent.callers : Step(c, Concurrent)

SpecConc == Init /\ [][NextConc]_vars

(* ---------------------------- working tree ----------------------------- *)

Min(a, b) == IF a < b THEN a ELSE b

\* The working tree after v mutations by other operations: the first v of
\* these tracked files are modified, and the first v untracked files exist.
TrackedPaths == <<"a.txt", "b.txt", "img.png">>

StatLineOf(path) ==
  CASE path = "a.txt" -> "a.txt | 3 ++-"
    [] path = "b.txt" -> "b.txt | 2 ++"
    [] OTHER -> "img.png | Bin 0 -> 10 bytes"

ModifiedAt(v) == SubSeq(TrackedPaths, 1, Min(v, Len(TrackedPaths)))

UntrackedAt(v) == [i \in 1..Min(v, MaxUntracked) |-> FileName(i)]

\* What 'diff', 'diff --name-only', 'diff --stat' and 'ls-files --others'
\* print in the working tree after v mutations.
DiffOf(v) ==
  Flatten([i \in 1..Len(ModifiedAt(v)) |->
             <<"diff --git a/" \o ModifiedAt(v)[i], NL, "+x", NL>>])

NamesOf(v) == LsText(ModifiedAt(v))

StatOf(v) ==
  Flatten([i \in 1..Len(ModifiedAt(v)) |->
             <<StatLineOf(ModifiedAt(v)[i]), NL>>])

\* The executor's answers in the working tree as it is now.
TreeView(v) ==
  Profile({1},
          {MkOptions(FALSE, n, Undefined, s, Undefined, Undefined, Undefined,
                     u) : n \in BOOL, s \in BOOL, u \in BOOL},
          {"/repo"},
          {Resolved(DiffOf(v))},
          {Resolved(NamesOf(v))},
          {Resolved(LsText(UntrackedAt(v)))},
          {"differ"},
          {Resolved(StatOf(v))})

\* Another operation changes the working tree.
Mutate ==
  /\ tree < MaxTree
  /\ tree' = tree + 1
  /\ UNCHANGED <<diffVars, seenAt, factoryVars>>

\* The steps of executeDiff, each in the working tree as it is at that
\* moment, and the mutations of other operations.
NextTree ==
  \/ \E c \in TreeView(tree).callers : Invoke(c, TreeView(tree))
  \/ \E c \in TreeView(tree).callers : ExecGit(c)
  \/ \E c \in TreeView(tree).callers : SettleStatOnly(c, TreeView(tree))
  \/ \E c \in TreeView(tree).callers : SettlePrimary(c, TreeView(tree))
  \/ \E c \in TreeView(tree).callers : SettleLs(c, TreeView(tree))
  \/ \E c \in TreeView(tree).callers : SettleFile(c, TreeView(tree))
  \/ \E c \in TreeView(tree).callers : SettleStat(c, TreeView(tree))
  \/ Mutate

SpecTree == Init /\ [][NextTree]_vars

(* -------------------------- provider factory --------------------------- *)

\* The cache after a caller that created instance mine for key k stores it:
\* get-or-create, a late duplicate is discarded.
RetainLast(c, k, mine) == [c EXCEPT ![k] = mine]

Retain(c, k, mine) == IF c[k] = 0 THEN [c EXCEPT ![k] = mine] ELSE c

\* getProvider(selection): a cached instance is handed out; on a miss a new
\* instance is created and its health check awaited.
GetProvider(g, k) ==
  /\ getters[g].pc = "idle"
  /\ IF cache[k] # 0
       THEN /\ getters' = [getters EXCEPT ![g] =
                             [pc |-> "done", key |-> k, mine |-> 0,
                              got |-> cache[k]]]
            /\ handed' = handed \cup {<<k, cache[k]>>}
            /\ UNCHANGED made
       ELSE /\ made < MaxInstances
            /\ made' = made + 1
            /\ getters' = [getters EXCEPT ![g] =
                             [pc |-> "creating", key |-> k,
                              mine |-> made + 1, got |-> 0]]
            /\ UNCHANGED handed
  /\ UNCHANGED <<cache, diffVars, treeVars>>

\* The health check of a new instance settles: a healthy instance goes to
\* the cache unless the key has one by now, and the caller is handed the
\* instance the cache holds; an unhealthy one fails with ProviderUnavailable.
HealthChecked(g, healthy) ==
  /\ getters[g].pc = "creating"
  /\ IF healthy
       THEN LET k == getters[g].key
                kept == Retain(cache, k, getters[g].mine)
            IN /\ cache' = kept
               /\ getters' = [getters EXCEPT ![g].pc = "done",
                                              ![g].got = kept[k]]
               /\ handed' = handed \cup {<<k, kept[k]>>}
       ELSE /\ getters' = [getters EXCEPT ![g].pc = "done"]
            /\ UNCHANGED <<cache, handed>>
  /\ UNCHANGED <<made, diffVars, treeVars>>

\* The caller is ready for a later call.
Again(g) ==
  /\ getters[g].pc = "done"
  /\ getters' = [getters EXCEPT ![g] = NoGetter]
  /\ UNCHANGED <<cache, made, handed, diffVars, treeVars>>

NextFactory ==
  \E g \in Calls :
    \/ \E k \in Keys : GetProvider(g, k)
    \/ \E healthy \in BOOL : HealthChecked(g, healthy)
    \/ Again(g)

SpecFactory == Init /\ [][NextFactory]_vars


(* ------------------------- reading the record -------------------------- *)

Done(c) == calls[c].pc = "done"

ReturnedCall(c) == Done(c) /\ calls[c].outcome.kind = "returned"

ThrownCall(c) == Done(c) /\ calls[c].outcome.kind = "thrown"

StatMode(c) == calls[c].options.stat

NameOnlyMode(c) == ~calls[c].options.stat /\ calls[c].options.nameOnly

FullMode(c) == ~calls[c].options.stat /\ ~calls[c].options.nameOnly

Entries(c) == 1..Len(execLog[c])

EntriesOf(c, steps) == {i \in Entries(c) : execLog[c][i].step \in steps}

\* The invocations whose arguments come from the caller's options.
DiffSteps == {"primary", "statOnly", "stat"}

\* The invocations outside the per-file try block.
GuardedSteps == {"primary", "ls", "statOnly", "stat"}

IsFlag(tok) ==
  tok \in {"--cached", "--name-only", "--stat"}
           \cup {"--unified=" \o ToString(n) : n \in 0..MaxUnified}

Positions(argv, tok) == {i \in 1..Len(argv) : argv[i] = tok}

\* The names a listing printed: every token that is neither a newline nor
\* whitespace is one name.
ListedNames(text) ==
  SelectSeq(text, LAMBDA t : t \notin Whitespace \cup {NL})

\* The listing's answer in the record of call c, <<>> when there is none.
ListingOf(c) ==
  LET ls == {i \in EntriesOf(c, {"ls"}) :
               execLog[c][i].resp.kind = "resolved"
               /\ execLog[c][i].resp.hasStdout}
  IN IF ls = {} THEN <<>>
     ELSE ListedNames(execLog[c][CHOOSE i \in ls : TRUE].resp.stdout)

(* ------------------------------- C1 ------------------------------------ *)

\* C1: every diff argument vector built from the options (primary diff, stat
\* pass) holds at most one "--", and a supplied path filter stands after it
\* and nowhere before it.
C1_PathAfterSingleSeparator ==
  \A c \in Calls : \A i \in EntriesOf(c, DiffSteps) :
    LET argv == execLog[c][i].argv
        path == calls[c].options.path
    IN /\ Cardinality(Positions(argv, "--")) <= 1
       /\ Truthy(path) =>
            /\ Positions(argv, "--") # {}
            /\ Positions(argv, path[1]) # {}
            /\ \A j \in Positions(argv, "--"), k \in Positions(argv, path[1]) :
                 j < k

\* A stat pass and a primary diff were issued for options with both refs and
\* a path filter.
C1_Witness ==
  \E c \in Calls :
    /\ Truthy(calls[c].options.path)
    /\ Truthy(calls[c].options.source)
    /\ Truthy(calls[c].options.target)
    /\ EntriesOf(c, {"primary"}) # {}
    /\ EntriesOf(c, {"stat"}) # {}

(* ------------------------------- C2 ------------------------------------ *)

\* C2: in every diff argument vector built from the options, no flag token
\* stands behind a ref, the "--" separator or the path filter.
C2_FlagsBeforeRefsAndPaths ==
  \A c \in Calls : \A i \in EntriesOf(c, DiffSteps) :
    LET argv == execLog[c][i].argv
    IN \A j \in 2..Len(argv), k \in 2..Len(argv) :
         (j < k /\ IsFlag(argv[k])) => IsFlag(argv[j])

(* ------------------------------- C3 ------------------------------------ *)

\* The expected outcome of a per-file comparison: exit 1 with the comparison
\* in the Stdout section of the message.
ExpectedDiffer(r) ==
  /\ r.kind = "rejected"
  /\ r.isError
  /\ r.exitCode = 1
  /\ \E i \in 1..Len(r.message) :
       r.message = ExitMessage(1, <<>>, SubSeq(r.message, i, Len(r.message)))

UnexpectedFileFailure(c) ==
  \E i \in EntriesOf(c, {"file"}) :
    /\ execLog[c][i].resp.kind = "rejected"
    /\ ~ExpectedDiffer(execLog[c][i].resp)

\* C3: a per-file comparison that fails by the expected "files differ" exit
\* is no failure and its stdout is taken from the error; one that fails in
\* any other way makes executeDiff raise a classified error.
C3_UnexpectedFileFailureRaises ==
  \A c \in Calls :
    Done(c) =>
      /\ UnexpectedFileFailure(c) => ThrownCall(c)
      /\ \A i \in EntriesOf(c, {"file"}) :
           (ExpectedDiffer(execLog[c][i].resp) /\ ReturnedCall(c)) =>
             \E k \in 1..Len(execLog[c][i].resp.message) :
               LET out == SubSeq(execLog[c][i].resp.message, k,
                                 Len(execLog[c][i].resp.message))
               IN /\ execLog[c][i].resp.message = ExitMessage(1, <<>>, out)
                  /\ \E a \in 0..Len(calls[c].outcome.value.diff) :
                       SubSeq(calls[c].outcome.value.diff, a + 1,
                              a + Len(out)) = out

(* ------------------------------- C4 ------------------------------------ *)

UntrackedCount(c) == Len(ListingOf(c))

\* C4 as stated: a successful call with includeUntracked issues between 2 and
\* 2 + N invocations.
C4_BetweenTwoAndTwoPlusN ==
  \A c \in Calls :
    (ReturnedCall(c) /\ calls[c].options.includeUntracked) =>
      /\ 2 <= Len(execLog[c])
      /\ Len(execLog[c]) <= 2 + UntrackedCount(c)

\* C4 amended: a successful call with includeUntracked issues exactly 1
\* invocation in stat mode, exactly 2 in name-only mode and exactly 3 + N in
\* full mode.
C4_InvocationCount ==
  \A c \in Calls :
    (ReturnedCall(c) /\ calls[c].options.includeUntracked) =>
      Len(execLog[c]) = IF StatMode(c) THEN 1
                        ELSE IF NameOnlyMode(c) THEN 2
                        ELSE 3 + UntrackedCount(c)

\* A full-mode call with two untracked files returned.
C4_Witness ==
  \E c \in Calls :
    /\ ReturnedCall(c)
    /\ FullMode(c)
    /\ calls[c].options.includeUntracked
    /\ UntrackedCount(c) = 2
    /\ Len(execLog[c]) = 5

(* ------------------------------- C5 ------------------------------------ *)

\* What went wrong at a guarded invocation: the rejection, or the TypeError
\* of reading a missing stdout; <<>> when nothing did.
FailureAt(e) ==
  IF e.resp.kind = "rejected" THEN <<e.resp>>
  ELSE IF e.resp.kind = "resolved" /\ ~e.resp.hasStdout
          /\ e.step \in {"ls", "statOnly", "stat"}
    THEN <<TypeErrorValue>>
  ELSE <<>>

FailedGuarded(c) ==
  {i \in EntriesOf(c, GuardedSteps) : FailureAt(execLog[c][i]) # <<>>}

\* The classified kind each failure must surface as.
KindOf(failure) ==
  IF failure = NotARepoFailure THEN "NotARepository"
  ELSE IF failure = SpawnFailure THEN "ToolUnavailable"
  ELSE "OperationFailed"

\* C5: a call in which the primary diff, the listing or a stat invocation
\* failed (or its output could not be parsed) ends thrown, with the
\* classified error of that failure for operation "diff", and returns nothing.
C5_FailuresLeaveMapped ==
  \A c \in Calls : \A i \in FailedGuarded(c) :
    Done(c) =>
      /\ calls[c].outcome =
           Thrown([operation |-> "diff",
                   errKind |-> KindOf(FailureAt(execLog[c][i])[1])])
      /\ calls[c].outcome.error.errKind \in ErrorKinds

\* The stat pass of a full-mode call was rejected outside a repository after
\* the per-file comparisons, and the call threw NotARepository.
C5_Witness ==
  \E c \in Calls :
    /\ ThrownCall(c)
    /\ calls[c].outcome.error.errKind = "NotARepository"
    /\ \E i \in EntriesOf(c, {"stat"}) :
         execLog[c][i].resp = NotARepoFailure
    /\ EntriesOf(c, {"file"}) # {}


(* ------------------------------- C6 ------------------------------------ *)

OccursIn(text, piece) ==
  \E k \in 0..(Len(text) - Len(piece)) :
    SubSeq(text, k + 1, k + Len(piece)) = piece

\* C6: a full-mode call with includeUntracked that returns carries, for every
\* untracked file listed, that file's added-file comparison in the diff text
\* and counts the file in filesChanged.
C6_EveryUntrackedFileInDiff ==
  \A c \in Calls :
    (ReturnedCall(c) /\ FullMode(c) /\ calls[c].options.includeUntracked) =>
      /\ \A i \in 1..UntrackedCount(c) :
           OccursIn(calls[c].outcome.value.diff, NoIndexOut(ListingOf(c)[i]))
      /\ calls[c].outcome.value.filesChanged >= UntrackedCount(c)

(* ------------------------------- C7 ------------------------------------ *)

\* The file lines of a stat block, read off its tokens.
StatLinesIn(text) == SelectSeq(text, LAMBDA t : t \in StatFileLines)

AddedBy(tok) ==
  IF tok = "a.txt | 3 ++-" \/ tok = "b.txt | 2 ++" THEN 2 ELSE 0

DeletedBy(tok) == IF tok = "a.txt | 3 ++-" THEN 1 ELSE 0

\* C7: a full-mode call that returns has issued exactly one stat pass, with
\* the primary diff's arguments; filesChanged is the number of files in that
\* pass plus the number of untracked files listed, and insertions and
\* deletions are the totals of that pass alone.
C7_CountsFromOneStatPass ==
  \A c \in Calls :
    (ReturnedCall(c) /\ FullMode(c)) =>
      /\ Cardinality(EntriesOf(c, {"stat", "statOnly"})) = 1
      /\ \A i \in EntriesOf(c, {"stat"}) :
           LET lines == StatLinesIn(execLog[c][i].resp.stdout)
               v == calls[c].outcome.value
           IN /\ v.filesChanged = Len(lines) + UntrackedCount(c)
              /\ v.insertions = SumSeq([k \in 1..Len(lines) |-> AddedBy(lines[k])])
              /\ v.deletions = SumSeq([k \in 1..Len(lines) |-> DeletedBy(lines[k])])
              /\ \A j \in EntriesOf(c, {"primary"}) :
                   execLog[c][i].argv = Append(execLog[c][j].argv, "--stat")

\* A full-mode call returned counts from a stat pass of three files, one of
\* them binary, with two untracked files listed.
C7_Witness ==
  \E c \in Calls :
    /\ ReturnedCall(c)
    /\ FullMode(c)
    /\ UntrackedCount(c) = 2
    /\ calls[c].outcome.value.filesChanged = 5
    /\ calls[c].outcome.value.insertions = 4
    /\ calls[c].outcome.value.deletions = 1

(* ------------------------------- C8 ------------------------------------ *)

\* What a per-file comparison contributed, read off the executor's answer:
\* its stdout when it resolved, the text of the Stdout section of an Error's
\* message when it was rejected, nothing otherwise.
PieceOf(r, file) ==
  IF r \in {FileResponse("resolved", file), FileResponse("differ", file)}
    THEN NoIndexOut(file)
  ELSE IF r = FileResponse("partial", file) THEN <<"partial " \o file, NL>>
  ELSE <<>>

\* The per-file contributions of call c in the order of the listing.
PiecesOf(c) ==
  LET names == ListingOf(c)
  IN [i \in 1..Len(names) |->
        IF NameOnlyMode(c) THEN <<names[i], NL>>
        ELSE LET at == {j \in EntriesOf(c, {"file"}) : execLog[c][j].file = i}
             IN IF at = {} THEN <<>>
                ELSE PieceOf(execLog[c][CHOOSE j \in at : TRUE].resp, names[i])]

PrimaryStdout(c) ==
  LET at == EntriesOf(c, {"primary"})
  IN IF at = {} THEN <<>> ELSE execLog[c][CHOOSE j \in at : TRUE].resp.stdout

\* C8: the diff text of a returning call (outside stat mode) is the primary
\* diff's stdout followed by the per-file outputs in the order the listing
\* enumerated the files.
C8_PrimaryThenUntrackedInOrder ==
  \A c \in Calls :
    (ReturnedCall(c) /\ ~StatMode(c)) =>
      calls[c].outcome.value.diff = PrimaryStdout(c) \o Flatten(PiecesOf(c))

\* A full-mode call returned after a non-empty primary diff and two per-file
\* comparisons that both produced output, listed in descending order.
C8_Witness ==
  \E c \in Calls :
    /\ ReturnedCall(c)
    /\ FullMode(c)
    /\ PrimaryStdout(c) # <<>>
    /\ ListingOf(c) = <<FileName(2), FileName(1)>>
    /\ \A i \in 1..2 : PiecesOf(c)[i] # <<>>

(* ------------------------------- C9 ------------------------------------ *)

\* C9: within one call no step is handed to the executor twice, and a failed
\* primary diff, listing or stat invocation is the call's last invocation.
C9_NoRetry ==
  \A c \in Calls :
    /\ \A i \in Entries(c), j \in Entries(c) :
         (execLog[c][i].step = execLog[c][j].step
          /\ execLog[c][i].file = execLog[c][j].file) => i = j
    /\ \A i \in FailedGuarded(c) : i = Len(execLog[c])
    /\ Cardinality(EntriesOf(c, {"file"})) <= UntrackedCount(c)

\* A per-file comparison failed and the comparison of the next file was
\* issued; later the stat pass failed and the call ended.
C9_Witness ==
  \E c \in Calls :
    /\ Done(c)
    /\ UnexpectedFileFailure(c)
    /\ Cardinality(EntriesOf(c, {"file"})) = 2
    /\ \E i \in EntriesOf(c, {"stat"}) : i \in FailedGuarded(c)


(* ------------------------------- C10 ----------------------------------- *)

StatOnlyStdout(c) ==
  LET at == EntriesOf(c, {"statOnly"})
  IN IF at = {} THEN <<>> ELSE execLog[c][CHOOSE j \in at : TRUE].resp.stdout

StatStdout(c) ==
  LET at == EntriesOf(c, {"stat"})
  IN IF at = {} THEN <<>> ELSE execLog[c][CHOOSE j \in at : TRUE].resp.stdout

\* What call c returns when run alone with the answers its own invocations
\* got.
AloneValue(c) ==
  LET diff == PrimaryStdout(c) \o Flatten(PiecesOf(c))
  IN IF StatMode(c)
       THEN LET lines == StatLinesIn(StatOnlyStdout(c))
            IN [diff |-> StatOnlyStdout(c),
                filesChanged |-> Len(lines),
                insertions |-> SumSeq([k \in 1..Len(lines) |-> AddedBy(lines[k])]),
                deletions |-> SumSeq([k \in 1..Len(lines) |-> DeletedBy(lines[k])]),
                binary |-> Contains(StatOnlyStdout(c), "Binary files")]
     ELSE IF NameOnlyMode(c)
       THEN [diff |-> diff,
             filesChanged |-> Len(NonBlankLines(diff)),
             binary |-> FALSE]
     ELSE LET lines == StatLinesIn(StatStdout(c))
          IN [diff |-> diff,
              filesChanged |-> Len(lines) + UntrackedCount(c),
              insertions |-> SumSeq([k \in 1..Len(lines) |-> AddedBy(lines[k])]),
              deletions |-> SumSeq([k \in 1..Len(lines) |-> DeletedBy(lines[k])]),
              binary |-> Contains(diff, "Binary files")]

AloneOutcome(c) ==
  IF FailedGuarded(c) # {}
    THEN LET i == CHOOSE k \in FailedGuarded(c) : TRUE
         IN Thrown([operation |-> "diff",
                    errKind |-> KindOf(FailureAt(execLog[c][i])[1])])
    ELSE Returned(AloneValue(c))

\* The argument vector of an invocation of call c, from the call's own
\* options and its own listing.
AloneArgv(c, e) ==
  LET o == calls[c].options
      cached == IF o.staged THEN <<"--cached">> ELSE <<>>
      nameOnly == IF o.nameOnly THEN <<"--name-only">> ELSE <<>>
      rest == (IF o.unified # Undefined
                 THEN <<"--unified=" \o ToString(o.unified[1])>> ELSE <<>>)
              \o (IF Truthy(o.source) THEN <<o.source[1]>> ELSE <<>>)
              \o (IF Truthy(o.target) THEN <<o.target[1]>> ELSE <<>>)
              \o (IF Truthy(o.path) THEN <<"--", o.path[1]>> ELSE <<>>)
  IN CASE e.step = "primary" -> <<"diff">> \o cached \o nameOnly \o rest
       [] e.step = "ls" -> <<"ls-files", "--others", "--exclude-standard">>
       [] e.step = "file" ->
            <<"diff", "--no-index", "/dev/null", ListingOf(c)[e.file]>>
       [] OTHER -> <<"diff">> \o cached \o rest \o <<"--stat">>

\* C10: with calls interleaved at every invocation, each invocation of a
\* call carries the vector and the working directory of that call, and each
\* call ends with the outcome it has when run alone with the same answers.
C10_CallsDoNotInterfere ==
  \A c \in Calls :
    /\ \A i \in Entries(c) :
         /\ execLog[c][i].cwd = calls[c].cwd
         /\ execLog[c][i].argv = AloneArgv(c, execLog[c][i])
    /\ Done(c) => calls[c].outcome = AloneOutcome(c)

\* Two calls in the same working directory: one returned the comparison of
\* its untracked file while the other, which listed a different file and has
\* appended that file's comparison, still awaits its stat pass.
C10_Witness ==
  \E c \in Calls, d \in Calls :
    /\ c # d
    /\ calls[c].cwd = calls[d].cwd
    /\ ReturnedCall(c)
    /\ FullMode(c)
    /\ ListingOf(c) = <<FileName(1)>>
    /\ OccursIn(calls[c].outcome.value.diff, NoIndexOut(FileName(1)))
    /\ FullMode(d)
    /\ Awaiting(d, "stat")
    /\ calls[d].untrackedDiff = NoIndexOut(FileName(2))


(* ------------------------------- C12 ----------------------------------- *)

\* The files a returning call reports besides the untracked ones: the file
\* lines of its stat output, or the names its name-only diff printed.
OwnFiles(c) ==
  IF StatMode(c) THEN Len(StatLinesIn(StatOnlyStdout(c)))
  ELSE IF NameOnlyMode(c) THEN Len(ListedNames(PrimaryStdout(c)))
  ELSE Len(StatLinesIn(StatStdout(c)))

\* C12: in every mode, a returning call with includeUntracked has issued the
\* listing invocation and counts every listed file in filesChanged.
C12_UntrackedListedAndCounted ==
  \A c \in Calls :
    (ReturnedCall(c) /\ calls[c].options.includeUntracked) =>
      /\ Cardinality(EntriesOf(c, {"ls"})) = 1
      /\ calls[c].outcome.value.filesChanged = OwnFiles(c) + UntrackedCount(c)

(* ------------------------------- C13 ----------------------------------- *)

\* C13: a returning name-only call has issued no per-file comparison and no
\* stat pass; with includeUntracked its diff is the primary output followed
\* by the untracked names, each a line of its own, and filesChanged is the
\* number of names of the primary output plus the number of files listed.
C13_NameOnlyListsAndCounts ==
  \A c \in Calls :
    (ReturnedCall(c) /\ NameOnlyMode(c)) =>
      LET v == calls[c].outcome.value
      IN /\ EntriesOf(c, {"file", "stat", "statOnly"}) = {}
         /\ v.diff = PrimaryStdout(c) \o Flatten(PiecesOf(c))
         /\ \A i \in 1..UntrackedCount(c) :
              \E k \in 1..Len(SplitLines(v.diff)) :
                SplitLines(v.diff)[k] = <<ListingOf(c)[i]>>
         /\ v.filesChanged = OwnFiles(c) + UntrackedCount(c)

(* ------------------------------- C14 ----------------------------------- *)

\* The steps of a call outside stat mode in the order of the code, for n
\* untracked files.
StepOrder(n) ==
  <<[step |-> "primary", file |-> 0], [step |-> "ls", file |-> 0]>>
  \o [i \in 1..n |-> [step |-> "file", file |-> i]]
  \o <<[step |-> "stat", file |-> 0]>>

\* C14: outside stat mode only the last invocation of a call can be
\* unsettled, so each one completes before the next is issued; the
\* invocations are the primary diff, the listing, the per-file comparisons in
\* the order of the listing and the stat pass, in that order; and without
\* includeUntracked there is neither a listing nor a per-file comparison.
C14_SequentialInOrder ==
  \A c \in Calls :
    ~StatMode(c) =>
      /\ \A i \in Entries(c) :
           i < Len(execLog[c]) => execLog[c][i].resp.kind # "pending"
      /\ \A i \in Entries(c) :
           LET e == execLog[c][i]
               here == [step |-> e.step, file |-> e.file]
           IN IF calls[c].options.includeUntracked
                THEN \/ (i <= 2 /\ here = StepOrder(0)[i])
                     \/ (i > 2 /\ here = StepOrder(UntrackedCount(c))[i])
                ELSE here = <<StepOrder(0)[1], StepOrder(0)[3]>>[i]
      /\ \A i \in EntriesOf(c, {"file"}) :
           execLog[c][i].argv[4] = ListingOf(c)[execLog[c][i].file]
      /\ NameOnlyMode(c) => Len(execLog[c]) <= 2
      /\ (NameOnlyMode(c) /\ ~calls[c].options.includeUntracked) =>
           Len(execLog[c]) <= 1

\* A full-mode call listed two untracked files in descending order, had
\* their comparisons settled one after the other in that order, and has now
\* issued its stat pass.
C14_Witness ==
  \E c \in Calls :
    /\ FullMode(c)
    /\ calls[c].options.includeUntracked
    /\ ListingOf(c) = <<FileName(2), FileName(1)>>
    /\ Len(execLog[c]) = 5
    /\ execLog[c][5].step = "stat"
    /\ execLog[c][5].resp.kind = "pending"
    /\ execLog[c][3].argv[4] = FileName(2)
    /\ execLog[c][4].argv[4] = FileName(1)


(* ------------------------------- C15 ----------------------------------- *)

\* The counts of the working tree after v mutations.
InsertionsAt(v) ==
  SumSeq([i \in 1..Len(ModifiedAt(v)) |-> AddedBy(StatLineOf(ModifiedAt(v)[i]))])

DeletionsAt(v) ==
  SumSeq([i \in 1..Len(ModifiedAt(v)) |-> DeletedBy(StatLineOf(ModifiedAt(v)[i]))])

\* The returned counts are those of the working tree after v mutations, with
\* the untracked files as the call listed them.
CountsDescribe(c, v) ==
  LET r == calls[c].outcome.value
  IN /\ r.filesChanged = Len(ModifiedAt(v)) + UntrackedCount(c)
     /\ r.insertions = InsertionsAt(v)
     /\ r.deletions = DeletionsAt(v)

\* The tracked part of the returned diff text is that of the working tree
\* after v mutations.
DiffDescribes(c, v) ==
  calls[c].outcome.value.diff = DiffOf(v) \o Flatten(PiecesOf(c))

\* The tree versions the primary diff and the stat pass of call c saw.
SeenBy(c, step) ==
  LET at == EntriesOf(c, {step})
  IN seenAt[c][CHOOSE i \in at : TRUE]

\* C15 as stated: the counts of a returning full-mode call describe the same
\* working-tree state as its diff text, whatever happens to the working tree
\* during the call.
C15_CountsMatchDiff ==
  \A c \in Calls :
    (ReturnedCall(c) /\ FullMode(c)) =>
      \E v \in 0..MaxTree : DiffDescribes(c, v) /\ CountsDescribe(c, v)

\* C15 amended: the diff text of a returning full-mode call describes the
\* working tree as the primary diff invocation saw it and the counts describe
\* it as the stat invocation saw it; when the working tree was not mutated
\* between the two, both describe the same state.
C15_CountsAtStatDiffAtPrimary ==
  \A c \in Calls :
    (ReturnedCall(c) /\ FullMode(c)) =>
      /\ DiffDescribes(c, SeenBy(c, "primary"))
      /\ CountsDescribe(c, SeenBy(c, "stat"))
      /\ SeenBy(c, "primary") = SeenBy(c, "stat") =>
           \E v \in 0..MaxTree : DiffDescribes(c, v) /\ CountsDescribe(c, v)

\* A full-mode call with an untracked file returned, and the working tree was
\* mutated between its primary diff and its stat pass.
C15_Witness ==
  \E c \in Calls :
    /\ ReturnedCall(c)
    /\ FullMode(c)
    /\ UntrackedCount(c) >= 1
    /\ SeenBy(c, "primary") < SeenBy(c, "stat")

(* ------------------------------- C11 ----------------------------------- *)

\* C11: every instance the factory has handed out for a key is the one
\* instance its cache retains for that key; an instance created by a caller
\* that lost the race is handed to nobody.
C11_OneRetainedInstance ==
  /\ \A p \in handed : cache[p[1]] # 0 /\ p[2] = cache[p[1]]
  /\ \A g \in Calls :
       (getters[g].pc = "done" /\ getters[g].got # 0) =>
         getters[g].got = cache[getters[g].key]

\* Two callers missed the cache for the same key, each created an instance,
\* and both were handed the same one.
C11_Witness ==
  \E g \in Calls, h \in Calls :
    /\ g # h
    /\ getters[g].pc = "done" /\ getters[h].pc = "done"
    /\ getters[g].key = getters[h].key
    /\ getters[g].mine # 0 /\ getters[h].mine # 0
    /\ getters[g].mine # getters[h].mine
    /\ getters[g].got # 0
    /\ getters[g].got = getters[h].got

=============================================================================
